---- MODULE Spec2Model ----
(***************************************************************************)
(* Authentication / session lifecycle of the contacts backend:             *)
(* src/src/services/users.py, src/src/auth/auth.py,                        *)
(* src/src/cache/token_cache.py, src/src/repository/users.py and the       *)
(* handlers of src/src/api/users.py that add logic of their own.           *)
(*                                                                         *)
(* A JWT is the record of its signed claims plus one bit saying whether    *)
(* its HMAC verifies.  python-jose turns datetime claims into whole        *)
(* seconds and signs deterministically, so two tokens minted for the same  *)
(* subject and type in the same clock second are the same string: here,    *)
(* the same record.                                                        *)
(***************************************************************************)
EXTENDS Integers, Sequences, FiniteSets, TLC

VARIABLES users, redis, now, ticks, issued, task, revoked, spent,
          contacts, next_id, today, cache, call, store_up

vars == <<users, redis, now, ticks, issued, task, revoked, spent,
          contacts, next_id, today, cache, call, store_up>>

\* The contacts side: the contacts table and its id sequence, the date of
\* date.today(), the contacts:* keys of the store, the last contacts request,
\* and whether the store answers.
cache_vars == <<contacts, next_id, today, cache, call, store_up>>

\* The users side.
auth_vars == <<users, redis, issued, task, revoked, spent>>

(***************************************************************************)
(* Bounds of the model.                                                    *)
(***************************************************************************)
MaxTicks == 2
MaxSalt == 0
MaxIssued == 4
MaxContacts == 2
MaxCachedContacts == 1
MaxEntries == 2

(***************************************************************************)
(* Program constants.                                                      *)
(***************************************************************************)
JWT_EXPIRATION_SECONDS == 3600
JWT_REFRESH_EXPIRATION_SECONDS == 86400
RESET_TOKEN_EXPIRATION_SECONDS == 900
RESET_ENTRY_TTL == 15 * 60
EMAIL_TOKEN_SECONDS == 7 * 86400

RESET_TOKEN_TYPE == "password_reset"
ACCESS_TOKEN_TYPE == "access"
REFRESH_TOKEN_TYPE == "refresh"
EMAIL_TOKEN_TYPE == "email_confirmation"

(***************************************************************************)
(* Absent values (Python None), one per type.                              *)
(***************************************************************************)
NoEmail == <<>>
NoToken == [sub |-> <<>>, token_type |-> "none", iat |-> 0, exp |-> 0,
            sig |-> FALSE]
NoHash == [pw |-> "none", salt |-> 0]
NoUser == [email |-> <<>>, password_hash |-> NoHash, refresh_token |-> NoToken,
           confirmed |-> FALSE, role |-> "none"]

(***************************************************************************)
(* Inputs.  An email is a sequence of characters so that strip() and       *)
(* lower() are computed, not assumed.                                      *)
(***************************************************************************)
RawEmails == {<<"a">>, <<" ", "A">>}
Passwords == {"p1", "p2"}
Salts == 0..MaxSalt
TickSteps == {1, JWT_REFRESH_EXPIRATION_SECONDS}
Tasks == {1, 2}

RECURSIVE lstrip(_)
lstrip(s) == IF s # <<>> /\ Head(s) = " " THEN lstrip(Tail(s)) ELSE s

RECURSIVE rstrip(_)
rstrip(s) ==
    IF s # <<>> /\ s[Len(s)] = " " THEN rstrip(SubSeq(s, 1, Len(s) - 1)) ELSE s

strip(s) == rstrip(lstrip(s))

lower_char(c) == IF c = "A" THEN "a" ELSE IF c = "B" THEN "b" ELSE c

lower(s) == [i \in 1..Len(s) |-> lower_char(s[i])]

\* Mutant: lowercasing without trimming.
Normalize_untrimmed(s) == lower(s)

Normalize(s) == lower(strip(s))

(***************************************************************************)
(* Credential hasher (bcrypt): salted, verified against the plaintext.     *)
(***************************************************************************)
get_password_hash(password, salt) == [pw |-> password, salt |-> salt]

verify_password(plain_password, hashed_password) ==
    hashed_password.pw = plain_password

(***************************************************************************)
(* Token codec.                                                            *)
(***************************************************************************)
create_token(sub, expires_delta, token_type) ==
    [sub |-> sub, token_type |-> token_type, iat |-> now,
     exp |-> now + expires_delta, sig |-> TRUE]

\* Mutant: the access token is minted with the refresh type.
create_access_token_typed_refresh(sub) ==
    create_token(sub, JWT_EXPIRATION_SECONDS, REFRESH_TOKEN_TYPE)

create_access_token(sub) ==
    create_token(sub, JWT_EXPIRATION_SECONDS, ACCESS_TOKEN_TYPE)

create_refresh_token(sub) ==
    create_token(sub, JWT_REFRESH_EXPIRATION_SECONDS, REFRESH_TOKEN_TYPE)

create_email_token(sub) ==
    [sub |-> sub, token_type |-> EMAIL_TOKEN_TYPE, iat |-> now,
     exp |-> now + EMAIL_TOKEN_SECONDS, sig |-> TRUE]

\* Mutant: the reset token is minted as an access token.
create_reset_token_as_access(sub) ==
    create_token(sub, RESET_TOKEN_EXPIRATION_SECONDS, ACCESS_TOKEN_TYPE)

create_reset_token(sub) ==
    [sub |-> sub, token_type |-> RESET_TOKEN_TYPE, iat |-> now,
     exp |-> now + RESET_TOKEN_EXPIRATION_SECONDS, sig |-> TRUE]

\* jose.jwt.decode: the signature verifies and exp is not in the past;
\* the payload of an accepted token is the token's claims.
\* Mutant: jwt.decode with the expiry check switched off.
jwt_decode_ok_no_exp(token) == token.sig

jwt_decode_ok(token) == token.sig /\ ~(token.exp < now)

\* Mutant: decoding with verify_exp switched off.
decode_refresh_token_no_exp(token) == token.sig

decode_refresh_token(token) == jwt_decode_ok(token)

decode_reset_token(token) ==
    jwt_decode_ok(token) /\ token.token_type = RESET_TOKEN_TYPE

get_email_from_token(token) ==
    IF jwt_decode_ok(token) THEN token.sub ELSE NoEmail

\* What a caller can present: every token the service ever handed out, and
\* the same claims under a signature that does not verify.
Forged(t) == [t EXCEPT !.sig = FALSE]

Presentable == issued \cup {Forged(t) : t \in issued}

(***************************************************************************)
(* Key-value store: key -> [value, expire_at]; an entry set with ex = ttl  *)
(* is gone once ttl seconds have passed.                                   *)
(***************************************************************************)
\* Mutant: a write drops every other key.
r_set_alone(r, key, value, ex) ==
    [k \in {key} |-> [value |-> value, expire_at |-> now + ex]]

r_set(r, key, value, ex) ==
    [k \in DOMAIN r \cup {key} |->
        IF k = key THEN [value |-> value, expire_at |-> now + ex] ELSE r[k]]

r_delete(r, key) == [k \in DOMAIN r \ {key} |-> r[k]]

r_exists(r, key) == key \in DOMAIN r

r_get(r, key) == IF key \in DOMAIN r THEN r[key].value ELSE NoEmail

r_expire(r, t) == [k \in {x \in DOMAIN r : r[x].expire_at > t} |-> r[k]]

_rt_key(token) == <<"rt", token>>

\* Mutant: the reset entry is keyed by the user alone.
pr_key_by_sub(token) == <<"pr", [token EXCEPT !.iat = 0, !.exp = 0]>>

pr_key(token) == <<"pr", token>>

\* Mutant: the entry is written without the email.
save_refresh_token_no_email(r, token, email) ==
    r_set(r, _rt_key(token), NoEmail, JWT_REFRESH_EXPIRATION_SECONDS)

save_refresh_token(r, token, email) ==
    r_set(r, _rt_key(token), email, JWT_REFRESH_EXPIRATION_SECONDS)

\* Mutant: the store is never found to hold the token.
is_refresh_token_active_never(r, token) == FALSE

is_refresh_token_active(r, token) == r_exists(r, _rt_key(token))

(***************************************************************************)
(* User repository: the users table, one row per email (unique column).    *)
(***************************************************************************)
get_user_by_email(us, email) ==
    IF Normalize(email) \in DOMAIN us THEN us[Normalize(email)] ELSE NoUser

repo_create_user(us, email, password_hash) ==
    [e \in DOMAIN us \cup {Normalize(email)} |->
        IF e = Normalize(email)
        THEN [email |-> Normalize(email), password_hash |-> password_hash,
              refresh_token |-> NoToken, confirmed |-> FALSE, role |-> "user"]
        ELSE us[e]]

\* No two rows hold the same refresh token (a token names its subject), so
\* scalar_one_or_none never sees two rows.
get_user_by_refresh_token(us, refresh_token) ==
    IF \E e \in DOMAIN us : us[e].refresh_token = refresh_token
    THEN us[CHOOSE e \in DOMAIN us : us[e].refresh_token = refresh_token]
    ELSE NoUser

\* Mutant: the row is written back as a fresh row.
set_refresh_token_fresh_row(us, user_email, refresh_token) ==
    IF user_email \in DOMAIN us
    THEN [us EXCEPT ![user_email] =
            [NoUser EXCEPT !.email = user_email,
                           !.password_hash = us[user_email].password_hash,
                           !.refresh_token = refresh_token,
                           !.role = us[user_email].role]]
    ELSE us

set_refresh_token(us, user_email, refresh_token) ==
    [e \in DOMAIN us |->
        IF e = user_email
        THEN [us[e] EXCEPT !.refresh_token = refresh_token]
        ELSE us[e]]

repo_confirmed_email(us, email) ==
    [e \in DOMAIN us |->
        IF e = Normalize(email) THEN [us[e] EXCEPT !.confirmed = TRUE]
        ELSE us[e]]

set_password_hash(us, email, password_hash) ==
    [e \in DOMAIN us |->
        IF e = email
        THEN [us[e] EXCEPT !.password_hash = password_hash,
                           !.refresh_token = NoToken]
        ELSE us[e]]

(***************************************************************************)
(* Request tasks.  A task runs one handler call at a time and keeps the    *)
(* call's arguments and response until its next call.  reset_password is   *)
(* followed await by await; the other handlers run to completion.          *)
(***************************************************************************)
IdleTask ==
    [op |-> "none", pc |-> "idle", email |-> NoEmail, token |-> NoToken,
     new_password |-> "none", result |-> "none", access_token |-> NoToken,
     refresh_token |-> NoToken, wrote |-> {}, prior |-> "fresh",
     repeat |-> FALSE]

Free(p) == task[p].pc \in {"idle", "done"}

\* A finished call: what the caller got back.  A refused call hands back
\* its error and nothing else.
Done(op) == [IdleTask EXCEPT !.op = op, !.pc = "done"]

\* The tokens handed out so far, with new ones added, stay within the bound.
CanIssue(new) == Cardinality(issued \cup new) <= MaxIssued

\* What a step changed in the two stores, as labels.
Changes(us, us2, r, r2, token) ==
    {c \in {"rows", "password_hash", "refresh_token", "user_other",
            "pr_entry", "redis_other"} :
        \/ c = "rows" /\ DOMAIN us2 # DOMAIN us
        \/ c = "password_hash" /\ \E e \in DOMAIN us \cap DOMAIN us2 :
              us2[e].password_hash # us[e].password_hash
        \/ c = "refresh_token" /\ \E e \in DOMAIN us \cap DOMAIN us2 :
              us2[e].refresh_token # us[e].refresh_token
        \/ c = "user_other" /\ \E e \in DOMAIN us \cap DOMAIN us2 :
              \/ us2[e].confirmed # us[e].confirmed
              \/ us2[e].role # us[e].role
              \/ us2[e].email # us[e].email
        \/ c = "pr_entry" /\ r_exists(r, pr_key(token))
                          /\ ~r_exists(r2, pr_key(token))
        \/ c = "redis_other" /\ r2 # r /\ r2 # r_delete(r, pr_key(token))}

(***************************************************************************)
(* Contacts: the repository queries and the contacts:* cache.              *)
(***************************************************************************)
SEARCH_TTL == 60
BIRTHDAYS_TTL == 600

\* Optional[str]
None == [some |-> FALSE, s |-> <<>>]

Some(s) == [some |-> TRUE, s |-> s]

Owners == {1, 2}
FirstNames == {None, Some(<<"a">>), Some(<<" ", "A">>), Some(<<"b">>)}
LastNames == {None, Some(<<" ">>)}
Emails == {None, Some(<<"B">>)}
Skips == {0, 1}
Limits == {1, 2}
DefaultDays == 7

\* The searches made against the cache: two spellings of one filter.
SearchedNames == {Some(<<"a">>), Some(<<" ", "A">>)}
CacheTickSteps == {1, SEARCH_TTL - 1, BIRTHDAYS_TTL - 1}

\* A date; NoDate is a NULL birthday.
Date(y, m, d) == [y |-> y, m |-> m, d |-> d]

NoDate == Date(0, 0, 0)

\* Request bodies of create and update.
ContactRows ==
    {[first_name |-> <<"a">>, last_name |-> <<"b">>, email |-> <<"a", "b">>,
      birthday |-> Date(1990, 1, 2)],
     [first_name |-> <<"A", "b">>, last_name |-> <<"b">>, email |-> <<"b">>,
      birthday |-> Date(1985, 12, 20)]}

\* The day the program starts on.
StartDay == Date(2023, 12, 28)

\* The days and the birthdays upcoming_birthdays is tried on.
Todays ==
    {Date(2023, 12, 28), Date(2023, 6, 1), Date(2024, 6, 1),
     Date(2024, 2, 25), Date(2025, 2, 25)}

DaysAhead == {1, 7, 364, 365}

Birthdays ==
    {NoDate, Date(1990, 1, 2), Date(1985, 12, 20), Date(2000, 6, 5),
     Date(1999, 6, 9), Date(1996, 2, 29), Date(1970, 6, 1)}

BirthdayRows ==
    {[first_name |-> <<"a">>, last_name |-> <<"b">>, email |-> <<"b">>,
      birthday |-> b] : b \in Birthdays}

\* datetime.date arithmetic.
IsLeap(y) == y % 4 = 0 /\ (y % 100 # 0 \/ y % 400 = 0)

YearLen(y) == IF IsLeap(y) THEN 366 ELSE 365

DaysBefore(y, m) ==
    <<0, 31, 59, 90, 120, 151, 181, 212, 243, 273, 304, 334>>[m]
    + (IF m > 2 /\ IsLeap(y) THEN 1 ELSE 0)

toordinal(date) == DaysBefore(date.y, date.m) + date.d

RECURSIVE fromordinal(_, _)
fromordinal(y, n) ==
    IF n > YearLen(y) THEN fromordinal(y + 1, n - YearLen(y))
    ELSE LET m == CHOOSE k \in 1..12 :
                     /\ DaysBefore(y, k) < n
                     /\ k < 12 => n <= DaysBefore(y, k + 1)
         IN  Date(y, m, n - DaysBefore(y, m))

\* date + timedelta(days=n)
plus_days(date, n) == fromordinal(date.y, toordinal(date) + n)

\* strftime("%m%d") and to_char(.., 'MMDD'): four digits, so the order of
\* the strings is the order of the numbers.
mmdd(date) == date.m * 100 + date.d

\* `s or ""`, and a filter that is None or "" is falsy
truthy(x) == x.some /\ x.s # <<>>

\* Mutant: trimming without lowercasing.
_norm_cased(x) == strip(IF truthy(x) THEN x.s ELSE <<>>)

_norm(x) == lower(strip(IF truthy(x) THEN x.s ELSE <<>>))

\* Mutant: the key does not name the owner.
make_search_key_shared(user_id, first_name, last_name, email, skip, limit) ==
    <<"contacts:search", 0,
      [fn |-> _norm(first_name), ln |-> _norm(last_name), em |-> _norm(email),
       s |-> skip, l |-> limit]>>

\* sha1 of the payload is taken to be collision-free: the digest is the
\* payload.
make_search_key(user_id, first_name, last_name, email, skip, limit) ==
    <<"contacts:search", user_id,
      [fn |-> _norm(first_name), ln |-> _norm(last_name), em |-> _norm(email),
       s |-> skip, l |-> limit]>>

make_birthdays_key(user_id, days_ahead) ==
    <<"contacts:birthdays", user_id, days_ahead>>

\* json.dumps / json.loads: the text of a list is never the empty string.
json_dumps(payload) == <<payload>>

json_loads(data) == data[1]

\* A query result: the rows, and for whom and when the repository made it.
NoResult == [found |-> FALSE, items |-> <<>>, by |-> 0, at |-> 0]

Result(items, user_id) ==
    [found |-> TRUE, items |-> items, by |-> user_id, at |-> now]

\* Mutant: an empty cached list counts as no entry.
get_search_contacts_falsy(c, key) ==
    IF ~r_exists(c, key) \/ json_loads(c[key].value).items = <<>>
    THEN NoResult ELSE json_loads(c[key].value)

\* r.get; `if not data: return None`; json.loads
get_search_contacts(c, key) ==
    IF ~r_exists(c, key) \/ c[key].value = <<>>
    THEN NoResult ELSE json_loads(c[key].value)

\* Mutant: search results are kept as long as birthdays.
set_search_contacts_long(c, key, result, ttl) ==
    r_set(c, key, json_dumps(result), BIRTHDAYS_TTL)

set_search_contacts(c, key, result, ttl) ==
    r_set(c, key, json_dumps(result), ttl)

get_birthdays(c, key) ==
    IF ~r_exists(c, key) \/ c[key].value = <<>>
    THEN NoResult ELSE json_loads(c[key].value)

set_birthdays(c, key, result) ==
    r_set(c, key, json_dumps(result), BIRTHDAYS_TTL)

\* ilike(f"%{needle.strip()}%")
ilike(field, needle) ==
    LET h == lower(field)
        n == lower(strip(needle))
    IN  \E i \in 0..(Len(h) - Len(n)) : SubSeq(h, i + 1, i + Len(n)) = n

Min(a, b) == IF a < b THEN a ELSE b

\* A stored row: the body, the id the table gave it, and its owner.
Row(body, id, user_id) ==
    [id |-> id, user_id |-> user_id, first_name |-> body.first_name,
     last_name |-> body.last_name, email |-> body.email,
     birthday |-> body.birthday]

NoContact == Row([first_name |-> <<>>, last_name |-> <<>>, email |-> <<>>,
                  birthday |-> NoDate], 0, 0)

\* The rows with the given ids, in the order of the ids.
RECURSIVE rows_by_id(_, _)
rows_by_id(tbl, ids) ==
    IF ids = {} THEN <<>>
    ELSE LET first == CHOOSE i \in ids : \A j \in ids : i <= j
         IN  <<tbl[first]>> \o rows_by_id(tbl, ids \ {first})

\* select(Contact).where(Contact.user_id == user.id)
where_user_id(tbl, user_id) ==
    rows_by_id(tbl, {i \in DOMAIN tbl : tbl[i].user_id = user_id})

offset_limit(found, skip, limit) ==
    SubSeq(found, skip + 1, Min(Len(found), skip + limit))

repo_get_contacts(tbl, skip, limit, user_id) ==
    offset_limit(where_user_id(tbl, user_id), skip, limit)

\* Mutant: the row with the id, whoever owns it.
get_contact_by_id_any(tbl, contact_id, user_id) ==
    IF contact_id \in DOMAIN tbl THEN tbl[contact_id] ELSE NoContact

\* filter_by(id=contact_id, user_id=user.id), scalar_one_or_none
get_contact_by_id(tbl, contact_id, user_id) ==
    IF contact_id \in DOMAIN tbl /\ tbl[contact_id].user_id = user_id
    THEN tbl[contact_id] ELSE NoContact

repo_search_contacts(tbl, first_name, last_name, email, skip, limit, user_id) ==
    LET Match(c) ==
            /\ truthy(first_name) => ilike(c.first_name, first_name.s)
            /\ truthy(last_name) => ilike(c.last_name, last_name.s)
            /\ truthy(email) => ilike(c.email, email.s)
    IN  offset_limit(SelectSeq(where_user_id(tbl, user_id), Match),
                     skip, limit)

\* Mutant: a window that wraps over New Year keeps only what is on both
\* sides of it.
in_window_and(key, start_key, end_key) ==
    IF start_key <= end_key
    THEN start_key <= key /\ key <= end_key
    ELSE key >= start_key /\ key <= end_key

\* key.between(start_key, end_key), or or_(key >= start_key, key <= end_key)
in_window(key, start_key, end_key) ==
    IF start_key <= end_key
    THEN start_key <= key /\ key <= end_key
    ELSE key >= start_key \/ key <= end_key

\* db.add(Contact(**data, user_id=user.id)); the table gives the id
repo_create_contact(tbl, id, body, user_id) ==
    [i \in DOMAIN tbl \cup {id} |->
        IF i = id THEN Row(body, id, user_id) ELSE tbl[i]]

repo_remove_contact(tbl, contact_id, user_id) ==
    IF get_contact_by_id(tbl, contact_id, user_id) = NoContact THEN tbl
    ELSE [i \in DOMAIN tbl \ {contact_id} |-> tbl[i]]

\* setattr for each field of the body; ContactUpdate has no user_id field
repo_update_contact(tbl, contact_id, body, user_id) ==
    IF get_contact_by_id(tbl, contact_id, user_id) = NoContact THEN tbl
    ELSE [tbl EXCEPT ![contact_id] = Row(body, contact_id, @.user_id)]

\* The rows come ordered by key; the order is not modelled.
repo_upcoming_birthdays(tbl, days, user_id, day) ==
    LET start_key == mmdd(day)
        end_key == mmdd(plus_days(day, days))
        Soon(c) == /\ c.birthday # NoDate
                   /\ in_window(mmdd(c.birthday), start_key, end_key)
    IN  SelectSeq(where_user_id(tbl, user_id), Soon)

\* The last contacts request: its arguments and what it answered.
IdleCall ==
    [op |-> "none", user_id |-> 0, first_name |-> None, last_name |-> None,
     email |-> None, skip |-> 0, limit |-> 0, days |-> 0, contact_id |-> 0,
     key |-> <<>>, result |-> "none", items |-> <<>>, by |-> 0, at |-> 0,
     hit |-> FALSE, repo_calls |-> 0, ttl |-> 0]

CanCache(key) == Cardinality(DOMAIN cache \cup {key}) <= MaxEntries

CacheInit ==
    /\ contacts = <<>>
    /\ next_id = 1
    /\ cache = <<>>
    /\ call = IdleCall
    /\ store_up = TRUE

Init ==
    /\ CacheInit
    /\ today = StartDay
    /\ users = <<>>
    /\ redis = <<>>
    /\ now = 0
    /\ ticks = 0
    /\ issued = {}
    /\ task = [p \in {1} |-> IdleTask]
    /\ revoked = {}
    /\ spent = [used |-> {}, reissued |-> {}]

InitConc ==
    /\ CacheInit
    /\ today = StartDay
    /\ users = <<>>
    /\ redis = <<>>
    /\ now = 0
    /\ ticks = 0
    /\ issued = {}
    /\ task = [p \in Tasks |-> IdleTask]
    /\ revoked = {}
    /\ spent = [used |-> {}, reissued |-> {}]

(***************************************************************************)
(* POST /users/signup: UserService.create_user, then the confirmation      *)
(* token is minted and mailed.                                             *)
(***************************************************************************)
signup(p, raw_email, password, salt) ==
    LET email == Normalize(raw_email)
        exists == get_user_by_email(users, email) # NoUser
        token == create_email_token(email)
    IN  /\ Free(p)
        /\ IF exists
           THEN /\ task' = [task EXCEPT ![p] =
                      [Done("signup") EXCEPT !.email = email,
                                             !.result = "UserAlreadyExists"]]
                /\ UNCHANGED <<users, issued>>
           ELSE /\ CanIssue({token})
                /\ users' = repo_create_user(users, email,
                                get_password_hash(password, salt))
                /\ issued' = issued \cup {token}
                /\ task' = [task EXCEPT ![p] =
                      [Done("signup") EXCEPT !.email = email,
                                             !.token = token,
                                             !.result = "ok"]]
        /\ UNCHANGED <<redis, now, ticks, revoked, spent>>
        /\ UNCHANGED cache_vars

(***************************************************************************)
(* GET /users/confirmed_email/{token}                                      *)
(***************************************************************************)
confirmed_email(p, token) ==
    LET email == get_email_from_token(token)
        user == get_user_by_email(users, email)
        result == IF email = NoEmail THEN "InvalidToken"
                  ELSE IF user = NoUser THEN "VerificationError"
                  ELSE IF user.confirmed THEN "already_confirmed"
                  ELSE "confirmed"
    IN  /\ Free(p)
        /\ users' = IF result = "confirmed"
                    THEN repo_confirmed_email(users, email) ELSE users
        /\ task' = [task EXCEPT ![p] =
              IF result \in {"confirmed", "already_confirmed"}
              THEN [Done("confirmed_email") EXCEPT !.token = token,
                                                   !.email = email,
                                                   !.result = result]
              ELSE [Done("confirmed_email") EXCEPT !.result = result]]
        /\ UNCHANGED <<redis, now, ticks, issued, revoked, spent>>
        /\ UNCHANGED cache_vars

(***************************************************************************)
(* UserService.login_by_email                                              *)
(***************************************************************************)
\* Mutant: the confirmed flag is looked at before the password.
login_result_confirmed_first(user, password) ==
    IF user = NoUser THEN "InvalidCredentials"
    ELSE IF ~user.confirmed THEN "EmailNotConfirmed"
    ELSE IF ~verify_password(password, user.password_hash)
    THEN "InvalidCredentials" ELSE "ok"

login_result(user, password) ==
    IF user = NoUser \/ ~verify_password(password, user.password_hash)
    THEN "InvalidCredentials"
    ELSE IF ~user.confirmed THEN "EmailNotConfirmed" ELSE "ok"

\* Mutant: the access token is what gets stored.
login_stored_token_access(access, refresh) == access

\* The token written to the User row and to the session store.
login_stored_token(access, refresh) == refresh

login_by_email(p, raw_email, password) ==
    LET email == Normalize(raw_email)
        user == get_user_by_email(users, email)
        access == create_access_token(user.email)
        refresh == create_refresh_token(user.email)
        result == login_result(user, password)
    IN  /\ Free(p)
        /\ IF result = "ok"
           THEN /\ CanIssue({access, refresh})
                /\ users' = set_refresh_token(users, user.email,
                                login_stored_token(access, refresh))
                /\ redis' = save_refresh_token(redis,
                                login_stored_token(access, refresh), user.email)
                /\ issued' = issued \cup {access, refresh}
                /\ revoked' = revoked \ {refresh}
                /\ task' = [task EXCEPT ![p] =
                      [Done("login") EXCEPT !.email = email,
                                            !.result = "ok",
                                            !.access_token = access,
                                            !.refresh_token = refresh]]
           ELSE /\ task' = [task EXCEPT ![p] =
                      [Done("login") EXCEPT !.email = email,
                                            !.result = result]]
                /\ UNCHANGED <<users, redis, issued, revoked>>
        /\ UNCHANGED <<now, ticks, spent>>
        /\ UNCHANGED cache_vars

(***************************************************************************)
(* UserService.refresh_access_token                                        *)
(***************************************************************************)
refresh_user(refresh_token) ==
    IF is_refresh_token_active(redis, refresh_token)
    THEN get_user_by_email(users, refresh_token.sub)
    ELSE get_user_by_refresh_token(users, refresh_token)

\* Mutant: without a session-store entry the call is refused.
refresh_ok_store_only(refresh_token) ==
    /\ is_refresh_token_active(redis, refresh_token)
    /\ decode_refresh_token(refresh_token)
    /\ get_user_by_email(users, refresh_token.sub) # NoUser

refresh_ok(refresh_token) ==
    LET user == refresh_user(refresh_token)
    IN  IF is_refresh_token_active(redis, refresh_token)
        THEN /\ decode_refresh_token(refresh_token)
             /\ user # NoUser
        ELSE /\ user # NoUser
             /\ decode_refresh_token(refresh_token)
             /\ refresh_token.token_type = REFRESH_TOKEN_TYPE
             /\ refresh_token.sub = user.email

\* Mutant: the fallback path registers the token as soon as a row holds it.
refresh_store_eager(refresh_token) ==
    IF ~is_refresh_token_active(redis, refresh_token)
       /\ refresh_user(refresh_token) # NoUser
    THEN save_refresh_token(redis, refresh_token,
                            refresh_user(refresh_token).email)
    ELSE redis

\* The store after the call: the fallback path registers the token again.
refresh_store(refresh_token) ==
    IF refresh_ok(refresh_token)
       /\ ~is_refresh_token_active(redis, refresh_token)
    THEN save_refresh_token(redis, refresh_token,
                            refresh_user(refresh_token).email)
    ELSE redis

refresh_access_token(p, refresh_token) ==
    LET user == refresh_user(refresh_token)
        access == create_access_token(user.email)
        \* the caller presents the token its previous refresh succeeded with
        repeat == /\ task[p].op = "refresh"
                  /\ task[p].result = "ok"
                  /\ task[p].token = refresh_token
    IN  /\ Free(p)
        /\ redis' = refresh_store(refresh_token)
        /\ IF refresh_ok(refresh_token)
           THEN /\ CanIssue({access})
                /\ issued' = issued \cup {access}
                /\ task' = [task EXCEPT ![p] =
                      [Done("refresh") EXCEPT !.token = refresh_token,
                                              !.email = user.email,
                                              !.result = "ok",
                                              !.access_token = access,
                                              !.refresh_token = refresh_token,
                                              !.repeat = repeat]]
           ELSE /\ task' = [task EXCEPT ![p] =
                      [Done("refresh") EXCEPT !.result = "InvalidToken"]]
                /\ UNCHANGED issued
        /\ UNCHANGED <<users, now, ticks, revoked, spent>>
        /\ UNCHANGED cache_vars

\* refresh_access_token await by await, for calls that run concurrently.
\* `await is_refresh_token_active(r, refresh_token)`
refresh_exists(p, refresh_token) ==
    /\ Free(p)
    /\ task' = [task EXCEPT ![p] =
          [IdleTask EXCEPT !.op = "refresh", !.pc = "exists",
             !.token = refresh_token,
             !.prior = IF is_refresh_token_active(redis, refresh_token)
                       THEN "active" ELSE "inactive"]]
    /\ UNCHANGED <<users, redis, now, ticks, issued, revoked, spent>>
    /\ UNCHANGED cache_vars

\* Mutant: the fallback path takes any row of the token's subject.
refresh_lookup_row_by_sub(refresh_token) ==
    get_user_by_email(users, refresh_token.sub)

refresh_lookup_row(refresh_token) ==
    get_user_by_refresh_token(users, refresh_token)

\* The repository read of either path, with the checks around it.
refresh_lookup(p) ==
    LET refresh_token == task[p].token
        active == task[p].prior = "active"
        user == IF active
                THEN get_user_by_email(users, refresh_token.sub)
                ELSE refresh_lookup_row(refresh_token)
        ok == IF active
              THEN decode_refresh_token(refresh_token) /\ user # NoUser
              ELSE /\ user # NoUser
                   /\ decode_refresh_token(refresh_token)
                   /\ refresh_token.token_type = REFRESH_TOKEN_TYPE
                   /\ refresh_token.sub = user.email
    IN  /\ task[p].op = "refresh" /\ task[p].pc = "exists"
        /\ task' = [task EXCEPT ![p] =
              IF ok
              THEN [@ EXCEPT !.pc = IF active THEN "mint" ELSE "save",
                             !.email = user.email]
              ELSE [Done("refresh") EXCEPT !.token = refresh_token,
                                           !.result = "InvalidToken"]]
        /\ UNCHANGED <<users, redis, now, ticks, issued, revoked, spent>>
        /\ UNCHANGED cache_vars

\* `await save_refresh_token(r, refresh_token, user.email)`
refresh_save(p) ==
    /\ task[p].op = "refresh" /\ task[p].pc = "save"
    /\ redis' = save_refresh_token(redis, task[p].token, task[p].email)
    /\ task' = [task EXCEPT ![p].pc = "mint"]
    /\ UNCHANGED <<users, now, ticks, issued, revoked, spent>>
    /\ UNCHANGED cache_vars

\* `await create_access_token(..)` and the return
refresh_mint(p) ==
    LET access == create_access_token(task[p].email)
    IN  /\ task[p].op = "refresh" /\ task[p].pc = "mint"
        /\ CanIssue({access})
        /\ issued' = issued \cup {access}
        /\ task' = [task EXCEPT ![p] =
              [Done("refresh") EXCEPT !.token = task[p].token,
                                      !.email = task[p].email,
                                      !.result = "ok",
                                      !.access_token = access,
                                      !.refresh_token = task[p].token]]
        /\ UNCHANGED <<users, redis, now, ticks, revoked, spent>>
        /\ UNCHANGED cache_vars

(***************************************************************************)
(* UserService.logout                                                      *)
(***************************************************************************)
logout(p, user_email) ==
    /\ Free(p)
    /\ users' = set_refresh_token(users, user_email, NoToken)
    /\ task' = [task EXCEPT ![p] =
          [Done("logout") EXCEPT !.email = user_email, !.result = "ok"]]
    /\ UNCHANGED <<redis, now, ticks, issued, revoked, spent>>
    /\ UNCHANGED cache_vars

(***************************************************************************)
(* UserService.request_password_reset                                      *)
(***************************************************************************)
request_password_reset(p, raw_email) ==
    LET user == get_user_by_email(users, Normalize(raw_email))
        token == create_reset_token(user.email)
    IN  /\ Free(p)
        /\ IF user # NoUser
           THEN /\ CanIssue({token})
                /\ redis' = r_set(redis, pr_key(token), user.email,
                                  RESET_ENTRY_TTL)
                /\ issued' = issued \cup {token}
                /\ spent' = IF token \in spent.used
                            THEN [spent EXCEPT !.reissued = @ \cup {token}]
                            ELSE spent
                /\ task' = [task EXCEPT ![p] =
                      [Done("request_password_reset") EXCEPT
                          !.email = user.email, !.token = token,
                          !.result = "sent"]]
           ELSE /\ task' = [task EXCEPT ![p] =
                      [Done("request_password_reset") EXCEPT
                          !.email = Normalize(raw_email), !.result = "noop"]]
                /\ UNCHANGED <<redis, issued, spent>>
        /\ UNCHANGED <<users, now, ticks, revoked>>
        /\ UNCHANGED cache_vars

(***************************************************************************)
(* UserService.reset_password, one action per await.                       *)
(***************************************************************************)
reset_token_valid(token, email) ==
    /\ email # NoEmail
    /\ decode_reset_token(token)
    /\ token.token_type = RESET_TOKEN_TYPE
    /\ token.sub = email

\* Mutant: the entry of a used token is left in place.
reset_consume_kept(r, token) == r

\* The entry of a used token is deleted.
reset_consume(r, token) == r_delete(r, pr_key(token))

\* Mutant: user not found, and every entry of that email is deleted.
reset_not_found_store_all(r, token) ==
    [k \in {x \in DOMAIN r : r[x].value # token.sub} |-> r[k]]

\* User not found: the entry is deleted before the 404.
reset_not_found_store(r, token) == r_delete(r, pr_key(token))

\* r.get, then the checks made before the repository is asked.
reset_get(p, token, new_password) ==
    LET email == r_get(redis, pr_key(token))
        valid == reset_token_valid(token, email)
        prior == IF token \in spent.reissued THEN "reissued"
                 ELSE IF token \in spent.used THEN "used" ELSE "fresh"
    IN  /\ Free(p)
        /\ task' = [task EXCEPT ![p] =
              IF valid
              THEN [IdleTask EXCEPT
                      !.op = "reset_password", !.pc = "lookup",
                      !.token = token, !.new_password = new_password,
                      !.email = email, !.result = "pending",
                      !.prior = prior]
              ELSE [Done("reset_password") EXCEPT
                      !.result = "InvalidToken", !.prior = prior]]
        /\ UNCHANGED <<users, redis, now, ticks, issued, revoked, spent>>
        /\ UNCHANGED cache_vars

\* get_user_by_email
reset_lookup(p) ==
    /\ task[p].pc = "lookup"
    /\ task' = [task EXCEPT ![p].pc =
          IF get_user_by_email(users, task[p].email) = NoUser
          THEN "delete_nf" ELSE "set_hash"]
    /\ UNCHANGED <<users, redis, now, ticks, issued, revoked, spent>>
    /\ UNCHANGED cache_vars

\* user not found: r.delete, then 404
reset_delete_nf(p) ==
    /\ task[p].pc = "delete_nf"
    /\ redis' = reset_not_found_store(redis, task[p].token)
    /\ users' = users
    /\ task' = [task EXCEPT ![p].pc = "done", ![p].result = "UserNotFound",
                  ![p].new_password = "none",
                  ![p].wrote = @ \cup Changes(users, users', redis, redis',
                                              task[p].token)]
    /\ UNCHANGED <<now, ticks, issued, revoked, spent>>
    /\ UNCHANGED cache_vars

\* set_password_hash
reset_set_hash(p, salt) ==
    /\ task[p].pc = "set_hash"
    /\ users' = set_password_hash(users, task[p].email,
                    get_password_hash(task[p].new_password, salt))
    /\ redis' = redis
    /\ task' = [task EXCEPT ![p].pc = "set_rt",
                  ![p].wrote = @ \cup Changes(users, users', redis, redis',
                                              task[p].token)]
    /\ UNCHANGED <<now, ticks, issued, revoked, spent>>
    /\ UNCHANGED cache_vars

\* set_refresh_token(email, None)
reset_set_rt(p) ==
    /\ task[p].pc = "set_rt"
    /\ users' = set_refresh_token(users, task[p].email, NoToken)
    /\ redis' = redis
    /\ task' = [task EXCEPT ![p].pc = "delete",
                  ![p].wrote = @ \cup Changes(users, users', redis, redis',
                                              task[p].token)]
    /\ UNCHANGED <<now, ticks, issued, revoked, spent>>
    /\ UNCHANGED cache_vars

\* r.delete, then return
reset_delete(p) ==
    /\ task[p].pc = "delete"
    /\ redis' = reset_consume(redis, task[p].token)
    /\ users' = users
    /\ task' = [task EXCEPT ![p].pc = "done", ![p].result = "ok",
                  ![p].new_password = "none",
                  ![p].wrote = @ \cup Changes(users, users', redis, redis',
                                              task[p].token)]
    /\ revoked' = revoked \cup
          {t \in issued : t.token_type = REFRESH_TOKEN_TYPE
                          /\ t.sub = task[p].email}
    /\ spent' = [used |-> spent.used \cup {task[p].token},
                 reissued |-> spent.reissued \ {task[p].token}]
    /\ UNCHANGED <<now, ticks, issued>>
    /\ UNCHANGED cache_vars

(***************************************************************************)
(* get_current_user, the dependency of every authenticated endpoint.       *)
(***************************************************************************)
\* Mutant: the token_type of the payload is not looked at.
current_user_payload_ok_any_type(token) ==
    jwt_decode_ok(token) /\ token.sub # NoEmail

\* jwt.decode, then the token_type and sub checks.
current_user_payload_ok(token) ==
    /\ jwt_decode_ok(token)
    /\ token.token_type = ACCESS_TOKEN_TYPE
    /\ token.sub # NoEmail

get_current_user(p, token) ==
    LET user == IF current_user_payload_ok(token)
                THEN get_user_by_email(users, token.sub) ELSE NoUser
    IN  /\ Free(p)
        /\ task' = [task EXCEPT ![p] =
              IF user # NoUser
              THEN [Done("get_current_user") EXCEPT !.token = token,
                                                    !.email = user.email,
                                                    !.result = "ok"]
              ELSE [Done("get_current_user") EXCEPT
                                                    !.result = "Unauthorized"]]
        /\ UNCHANGED <<users, redis, now, ticks, issued, revoked, spent>>
        /\ UNCHANGED cache_vars

(***************************************************************************)
(* Environment: the clock, and the users table losing a row.               *)
(***************************************************************************)
Tick(d) ==
    /\ ticks < MaxTicks
    /\ now' = now + d
    /\ ticks' = ticks + 1
    /\ redis' = r_expire(redis, now')
    /\ cache' = r_expire(cache, now')
    /\ today' = plus_days(today, d \div 86400)
    /\ UNCHANGED <<users, issued, task, revoked, spent>>
    /\ UNCHANGED <<contacts, next_id, call, store_up>>

UserRowDeleted(email) ==
    /\ email \in DOMAIN users
    /\ users' = [e \in DOMAIN users \ {email} |-> users[e]]
    /\ UNCHANGED <<redis, now, ticks, issued, task, revoked, spent>>
    /\ UNCHANGED cache_vars

\* The handlers, one request at a time.  (The user-not-found branch of
\* reset_password needs a row to disappear: see NextEnv.)
Next ==
    \/ \E p \in DOMAIN task, raw \in RawEmails, pw \in Passwords,
          salt \in Salts : signup(p, raw, pw, salt)
    \/ \E p \in DOMAIN task, token \in Presentable : confirmed_email(p, token)
    \/ \E p \in DOMAIN task, raw \in RawEmails, pw \in Passwords :
          login_by_email(p, raw, pw)
    \/ \E p \in DOMAIN task, token \in Presentable :
          refresh_access_token(p, token)
    \/ \E p \in DOMAIN task, email \in DOMAIN users : logout(p, email)
    \/ \E p \in DOMAIN task, raw \in RawEmails : request_password_reset(p, raw)
    \/ \E p \in DOMAIN task, token \in Presentable, pw \in Passwords :
          reset_get(p, token, pw)
    \/ \E p \in DOMAIN task : reset_lookup(p)
    \/ \E p \in DOMAIN task, salt \in Salts : reset_set_hash(p, salt)
    \/ \E p \in DOMAIN task : reset_set_rt(p)
    \/ \E p \in DOMAIN task : reset_delete(p)
    \/ \E d \in TickSteps : Tick(d)

Spec == Init /\ [][Next]_vars

\* The same over a users table that can lose rows.
NextEnv ==
    \/ Next
    \/ \E p \in DOMAIN task : reset_delete_nf(p)
    \/ \E email \in DOMAIN users : UserRowDeleted(email)

SpecEnv == Init /\ [][NextEnv]_vars

\* The same with callers of the authenticated endpoints.
NextMe ==
    \/ NextEnv
    \/ \E p \in DOMAIN task, token \in Presentable : get_current_user(p, token)

SpecMe == Init /\ [][NextMe]_vars

\* Two request tasks within one clock second, interleaving at the awaits of
\* reset_password, with the handlers that create what reset_password reads.
NextConc ==
    \/ \E p \in DOMAIN task, raw \in RawEmails, pw \in Passwords,
          salt \in Salts : signup(p, raw, pw, salt)
    \/ \E p \in DOMAIN task, raw \in RawEmails : request_password_reset(p, raw)
    \/ \E p \in DOMAIN task, token \in Presentable, pw \in Passwords :
          reset_get(p, token, pw)
    \/ \E p \in DOMAIN task : reset_lookup(p)
    \/ \E p \in DOMAIN task, salt \in Salts : reset_set_hash(p, salt)
    \/ \E p \in DOMAIN task : reset_set_rt(p)
    \/ \E p \in DOMAIN task : reset_delete(p)

SpecConc == InitConc /\ [][NextConc]_vars

\* The sessions of one user who signed up and confirmed the address before.
InitSessions ==
    /\ CacheInit
    /\ today = StartDay
    /\ users = repo_confirmed_email(
                  repo_create_user(<<>>, <<"a">>,
                                   get_password_hash("p1", 0)), <<"a">>)
    /\ redis = <<>>
    /\ now = 0
    /\ ticks = 0
    /\ issued = {}
    /\ task = [p \in {1} |-> IdleTask]
    /\ revoked = {}
    /\ spent = [used |-> {}, reissued |-> {}]

NextSessions ==
    \/ \E p \in DOMAIN task, raw \in RawEmails, pw \in Passwords :
          login_by_email(p, raw, pw)
    \/ \E p \in DOMAIN task, token \in Presentable :
          refresh_access_token(p, token)
    \/ \E p \in DOMAIN task, email \in DOMAIN users : logout(p, email)
    \/ \E d \in TickSteps : Tick(d)

SpecSessions == InitSessions /\ [][NextSessions]_vars

\* Password resets of one user: four callers, one call each, so that the
\* calls made so far can be read off the callers.
Callers == 1..4

ResetTickSteps == {1, RESET_ENTRY_TTL}

InitResets ==
    /\ CacheInit
    /\ today = StartDay
    /\ users = repo_confirmed_email(
                  repo_create_user(<<>>, <<"a">>,
                                   get_password_hash("p1", 0)), <<"a">>)
    /\ redis = <<>>
    /\ now = 0
    /\ ticks = 0
    /\ issued = {}
    /\ task = [p \in Callers |-> IdleTask]
    /\ revoked = {}
    /\ spent = [used |-> {}, reissued |-> {}]

NextResets ==
    \/ \E p \in DOMAIN task, raw \in RawEmails :
          task[p].op = "none" /\ request_password_reset(p, raw)
    \/ \E p \in DOMAIN task, token \in Presentable, pw \in Passwords :
          task[p].op = "none" /\ reset_get(p, token, pw)
    \/ \E p \in DOMAIN task : reset_lookup(p)
    \/ \E p \in DOMAIN task, salt \in Salts : reset_set_hash(p, salt)
    \/ \E p \in DOMAIN task : reset_set_rt(p)
    \/ \E p \in DOMAIN task : reset_delete(p)
    \/ \E d \in ResetTickSteps : Tick(d)

SpecResets == InitResets /\ [][NextResets]_vars

\* Two callers refreshing at once: the sessions are set up while no call is
\* in flight and the clock stands still once refreshing has begun.
Quiet == \A q \in DOMAIN task : Free(q)

NoRefreshYet == \A q \in DOMAIN task : task[q].op # "refresh"

NextRefresh ==
    \/ \E raw \in RawEmails, pw \in Passwords, salt \in Salts :
          Quiet /\ signup(1, raw, pw, salt)
    \/ \E token \in Presentable : Quiet /\ confirmed_email(1, token)
    \/ \E raw \in RawEmails, pw \in Passwords :
          Quiet /\ login_by_email(1, raw, pw)
    \/ \E email \in DOMAIN users : Quiet /\ logout(1, email)
    \/ \E d \in TickSteps : NoRefreshYet /\ Tick(d)
    \/ \E p \in DOMAIN task, token \in Presentable : refresh_exists(p, token)
    \/ \E p \in DOMAIN task : refresh_lookup(p)
    \/ \E p \in DOMAIN task : refresh_save(p)
    \/ \E p \in DOMAIN task : refresh_mint(p)

SpecRefresh == InitConc /\ [][NextRefresh]_vars

(***************************************************************************)
(* ContactService: the cached queries, and the mutations.                  *)
(***************************************************************************)
\* The frame of a cached query that has answered.
Answered(frame, result, hit, ttl) ==
    [frame EXCEPT !.result = "ok", !.items = result.items,
                  !.by = result.by, !.at = result.at, !.hit = hit,
                  !.repo_calls = IF hit THEN 0 ELSE 1, !.ttl = ttl]

\* An exception of the Redis client is not caught anywhere on the way.
StoreError(frame) == [frame EXCEPT !.result = "StoreError"]

search_contacts(first_name, last_name, email, skip, limit, user_id) ==
    LET key == make_search_key(user_id, first_name, last_name, email,
                               skip, limit)
        frame == [IdleCall EXCEPT !.op = "search_contacts",
                    !.user_id = user_id, !.key = key]
        cached == get_search_contacts(cache, key)
        result == Result(repo_search_contacts(contacts, first_name,
                              last_name, email, skip, limit, user_id),
                         user_id)
    IN  /\ IF ~store_up
           THEN /\ call' = StoreError(frame)
                /\ cache' = cache
           ELSE IF cached.found
           THEN /\ call' = Answered(frame, cached, TRUE, 0)
                /\ cache' = cache
           ELSE /\ CanCache(key)
                /\ cache' = set_search_contacts(cache, key, result, SEARCH_TTL)
                /\ call' = Answered(frame, result, FALSE, SEARCH_TTL)
        /\ UNCHANGED <<contacts, next_id, today, store_up, now, ticks>>
        /\ UNCHANGED auth_vars

\* make_search_key on its own, with the arguments kept for comparison.
compute_search_key(user_id, first_name, last_name, email, skip, limit) ==
    /\ call' = [IdleCall EXCEPT !.op = "make_search_key",
                    !.user_id = user_id, !.first_name = first_name,
                    !.last_name = last_name, !.email = email,
                    !.skip = skip, !.limit = limit,
                    !.key = make_search_key(user_id, first_name, last_name,
                                            email, skip, limit)]
    /\ UNCHANGED <<contacts, next_id, today, cache, store_up, now, ticks>>
    /\ UNCHANGED auth_vars

upcoming_birthdays(days_ahead, user_id) ==
    LET key == make_birthdays_key(user_id, days_ahead)
        frame == [IdleCall EXCEPT !.op = "upcoming_birthdays",
                    !.user_id = user_id, !.days = days_ahead, !.key = key]
        cached == get_birthdays(cache, key)
        result == Result(repo_upcoming_birthdays(contacts, days_ahead,
                                                 user_id, today), user_id)
    IN  /\ IF ~store_up
           THEN /\ call' = StoreError(frame)
                /\ cache' = cache
           ELSE IF cached.found
           THEN /\ call' = Answered(frame, cached, TRUE, 0)
                /\ cache' = cache
           ELSE /\ CanCache(key)
                /\ cache' = set_birthdays(cache, key, result)
                /\ call' = Answered(frame, result, FALSE, BIRTHDAYS_TTL)
        /\ UNCHANGED <<contacts, next_id, today, store_up, now, ticks>>
        /\ UNCHANGED auth_vars

\* ContactRepository.upcoming_birthdays on its own.
repository_upcoming_birthdays(days, user_id) ==
    /\ call' = [IdleCall EXCEPT !.op = "repository.upcoming_birthdays",
                    !.user_id = user_id, !.days = days, !.result = "ok",
                    !.items = repo_upcoming_birthdays(contacts, days,
                                                      user_id, today)]
    /\ UNCHANGED <<contacts, next_id, today, cache, store_up, now, ticks>>
    /\ UNCHANGED auth_vars

\* The uncached handlers of api/contacts.py.
read_contacts(skip, limit, user_id) ==
    /\ call' = [IdleCall EXCEPT !.op = "read_contacts", !.user_id = user_id,
                    !.skip = skip, !.limit = limit, !.result = "200",
                    !.items = repo_get_contacts(contacts, skip, limit,
                                                user_id)]
    /\ UNCHANGED <<contacts, next_id, today, cache, store_up, now, ticks>>
    /\ UNCHANGED auth_vars

read_contact(contact_id, user_id) ==
    LET contact == get_contact_by_id(contacts, contact_id, user_id)
        frame == [IdleCall EXCEPT !.op = "read_contact",
                    !.user_id = user_id, !.contact_id = contact_id]
    IN  /\ call' = IF contact = NoContact
                   THEN [frame EXCEPT !.result = "404"]
                   ELSE [frame EXCEPT !.result = "200",
                                      !.items = <<contact>>]
        /\ UNCHANGED <<contacts, next_id, today, cache, store_up, now, ticks>>
        /\ UNCHANGED auth_vars

create_contact(body, user_id) ==
    /\ next_id <= MaxContacts
    /\ contacts' = repo_create_contact(contacts, next_id, body, user_id)
    /\ next_id' = next_id + 1
    /\ call' = [IdleCall EXCEPT !.op = "create_contact", !.user_id = user_id,
                    !.contact_id = next_id, !.result = "201",
                    !.items = <<Row(body, next_id, user_id)>>]
    /\ UNCHANGED <<today, cache, store_up, now, ticks>>
    /\ UNCHANGED auth_vars

update_contact(contact_id, body, user_id) ==
    LET contact == get_contact_by_id(contacts, contact_id, user_id)
        frame == [IdleCall EXCEPT !.op = "update_contact",
                    !.user_id = user_id, !.contact_id = contact_id]
    IN  /\ contacts' = repo_update_contact(contacts, contact_id, body,
                                           user_id)
        /\ call' = IF contact = NoContact
                   THEN [frame EXCEPT !.result = "404"]
                   ELSE [frame EXCEPT !.result = "200",
                                      !.items = <<contacts'[contact_id]>>]
        /\ UNCHANGED <<next_id, today, cache, store_up, now, ticks>>
        /\ UNCHANGED auth_vars

\* ContactService.remove_contact: `return True` whatever the repository
\* returned.
service_remove_contact(tbl, contact_id, user_id) == TRUE

remove_contact(contact_id, user_id) ==
    LET ok == service_remove_contact(contacts, contact_id, user_id)
        frame == [IdleCall EXCEPT !.op = "remove_contact",
                    !.user_id = user_id, !.contact_id = contact_id]
    IN  /\ contacts' = repo_remove_contact(contacts, contact_id, user_id)
        /\ call' = IF ~ok THEN [frame EXCEPT !.result = "404"]
                   ELSE [frame EXCEPT !.result = "204"]
        /\ UNCHANGED <<next_id, today, cache, store_up, now, ticks>>
        /\ UNCHANGED auth_vars

\* The store stops answering, and answers again.
StoreFails ==
    /\ store_up /\ store_up' = FALSE
    /\ UNCHANGED <<contacts, next_id, today, cache, call, now, ticks>>
    /\ UNCHANGED auth_vars

StoreRecovers ==
    /\ ~store_up /\ store_up' = TRUE
    /\ UNCHANGED <<contacts, next_id, today, cache, call, now, ticks>>
    /\ UNCHANGED auth_vars

NextCache ==
    \/ \E fn \in SearchedNames, skip \in Skips, u \in Owners :
          search_contacts(fn, None, None, skip, MaxCachedContacts, u)
    \/ \E u \in Owners : upcoming_birthdays(DefaultDays, u)
    \/ \E body \in ContactRows, u \in Owners :
          next_id <= MaxCachedContacts /\ create_contact(body, u)
    \/ \E id \in 1..MaxCachedContacts, body \in ContactRows, u \in Owners :
          update_contact(id, body, u)
    \/ \E id \in 1..MaxCachedContacts, u \in Owners : remove_contact(id, u)
    \/ \E d \in CacheTickSteps : Tick(d)

SpecCache == Init /\ [][NextCache]_vars

\* The cached queries over a store that can stop answering.
NextStore ==
    \/ \E fn \in SearchedNames, skip \in Skips, u \in Owners :
          search_contacts(fn, None, None, skip, MaxCachedContacts, u)
    \/ \E u \in Owners : upcoming_birthdays(DefaultDays, u)
    \/ \E body \in ContactRows, u \in Owners :
          next_id <= MaxCachedContacts /\ create_contact(body, u)
    \/ StoreFails
    \/ StoreRecovers

SpecStore == Init /\ [][NextStore]_vars

\* make_search_key over its arguments.
NextKey ==
    \E fn \in FirstNames, ln \in LastNames, em \in Emails, skip \in Skips,
       limit \in Limits, u \in Owners :
       compute_search_key(u, fn, ln, em, skip, limit)

SpecKey == Init /\ [][NextKey]_vars

\* ContactRepository.upcoming_birthdays over days, dates and birthdays.
InitBirthdays ==
    /\ CacheInit
    /\ today \in Todays
    /\ users = <<>>
    /\ redis = <<>>
    /\ now = 0
    /\ ticks = 0
    /\ issued = {}
    /\ task = [p \in {1} |-> IdleTask]
    /\ revoked = {}
    /\ spent = [used |-> {}, reissued |-> {}]

NextBirthdays ==
    \/ \E body \in BirthdayRows, u \in Owners : create_contact(body, u)
    \/ \E days \in DaysAhead, u \in Owners :
          repository_upcoming_birthdays(days, u)

SpecBirthdays == InitBirthdays /\ [][NextBirthdays]_vars

\* The contacts handlers, called by either user with any id.
ContactIds == 1..(MaxContacts + 1)

NextContacts ==
    \/ \E body \in ContactRows, u \in Owners : create_contact(body, u)
    \/ \E id \in ContactIds, body \in ContactRows, u \in Owners :
          update_contact(id, body, u)
    \/ \E id \in ContactIds, u \in Owners : remove_contact(id, u)
    \/ \E id \in ContactIds, u \in Owners : read_contact(id, u)
    \/ \E skip \in Skips, u \in Owners :
          read_contacts(skip, MaxContacts, u)
    \/ \E fn \in SearchedNames, skip \in Skips, u \in Owners :
          search_contacts(fn, None, None, skip, MaxContacts, u)

SpecContacts == Init /\ [][NextContacts]_vars

(***************************************************************************)
(* Claims.                                                                 *)
(***************************************************************************)
ResetFrame(p) == task[p].op = "reset_password"

RefreshFrame(p) == task[p].op = "refresh"

RowHolds(t) == \E e \in DOMAIN users : users[e].refresh_token = t

\* A step that is the call login_by_email(raw, pw) of task p.
LoginStep(p, raw, pw) ==
    task'[p].op = "login" /\ login_by_email(p, raw, pw)

\* A step that is the call refresh_access_token(t) of task p.
RefreshStep(p, t) ==
    task'[p].op = "refresh" /\ refresh_access_token(p, t)

\* C1: after a successful reset_password every refresh token issued to the
\* user before it is revoked: no session-store entry, no User-row copy, and
\* no refresh_access_token call succeeds with it.
C1_ResetRevokesRefreshTokens ==
    \A t \in revoked :
        /\ ~is_refresh_token_active(redis, t)
        /\ ~RowHolds(t)
        /\ \A p \in DOMAIN task :
              ~(RefreshFrame(p) /\ task[p].result = "ok" /\ task[p].token = t)

\* C2: confirmed_email accepts (confirms, or reports already confirmed) only
\* a token whose signed token_type is email_confirmation.
C2_ConfirmOnlyByConfirmationToken ==
    \A p \in DOMAIN task :
        (task[p].op = "confirmed_email"
         /\ task[p].result \in {"confirmed", "already_confirmed"})
        => task[p].token.token_type = EMAIL_TOKEN_TYPE

\* C3: two reset_password calls in flight with the same token never both
\* get past the overwrite of the password hash.
C3_SingleWinnerReset ==
    \A p, q \in DOMAIN task :
        (p # q /\ ResetFrame(p) /\ ResetFrame(q)
         /\ task[p].token = task[q].token)
        => ~(task[p].pc \in {"set_rt", "delete"}
             /\ task[q].pc \in {"set_rt", "delete"})

\* C4 as stated: a reset_password call with a token that an earlier call
\* used successfully fails as invalid and writes nothing.
C4_UsedTokenAlwaysRefused ==
    \A p \in DOMAIN task :
        (ResetFrame(p) /\ task[p].prior \in {"used", "reissued"})
        => (task[p].pc = "done" /\ task[p].result = "InvalidToken"
            /\ task[p].wrote = {})

\* C4 amended: a used token is refused, and nothing is written, as long as
\* request_password_reset has not minted the same token again since.
C4_UsedTokenRefusedUntilReissued ==
    \A p \in DOMAIN task :
        (ResetFrame(p) /\ task[p].prior = "used")
        => (task[p].pc = "done" /\ task[p].result = "InvalidToken"
            /\ task[p].wrote = {})

C4_Witness ==
    \E p \in DOMAIN task :
        /\ ResetFrame(p) /\ task[p].prior = "used" /\ task[p].pc = "done"
        /\ spent.used # {}

\* The login calls of C5 and C6: the account as the call finds it.
LoginFinds(raw, confirmed) ==
    /\ get_user_by_email(users, Normalize(raw)) # NoUser
    /\ get_user_by_email(users, Normalize(raw)).confirmed = confirmed

LoginWritesNothing(p) ==
    /\ users' = users /\ redis' = redis /\ issued' = issued
    /\ task'[p].access_token = NoToken /\ task'[p].refresh_token = NoToken

\* C5 as stated: login to an unconfirmed account fails with
\* EmailNotConfirmed whatever the password, and writes nothing.
C5_UnconfirmedIsEmailNotConfirmed ==
    [][\A p \in DOMAIN task, raw \in RawEmails, pw \in Passwords :
          (LoginStep(p, raw, pw) /\ LoginFinds(raw, FALSE))
          => (task'[p].result = "EmailNotConfirmed" /\ LoginWritesNothing(p))
      ]_vars

\* C5 amended: login to an unconfirmed account fails, with EmailNotConfirmed
\* when the password is right and InvalidCredentials when it is wrong, and
\* writes nothing.
C5_UnconfirmedLoginFails ==
    [][\A p \in DOMAIN task, raw \in RawEmails, pw \in Passwords :
          (LoginStep(p, raw, pw) /\ LoginFinds(raw, FALSE))
          => (/\ task'[p].result =
                    IF verify_password(pw,
                          get_user_by_email(users, Normalize(raw)).password_hash)
                    THEN "EmailNotConfirmed" ELSE "InvalidCredentials"
              /\ LoginWritesNothing(p))
      ]_vars

C5_Witness ==
    \E p \in DOMAIN task :
        /\ task[p].op = "login" /\ task[p].result = "InvalidCredentials"
        /\ task[p].email \in DOMAIN users
        /\ ~users[task[p].email].confirmed

\* C6: login of a confirmed user with the right password returns an access
\* and a refresh token, and the refresh token is then the User row's and a
\* session-store entry holding the user's email.
C6_LoginStoresRefreshToken ==
    [][\A p \in DOMAIN task, raw \in RawEmails, pw \in Passwords :
          (/\ LoginStep(p, raw, pw)
           /\ LoginFinds(raw, TRUE)
           /\ verify_password(pw,
                 get_user_by_email(users, Normalize(raw)).password_hash))
          => (/\ task'[p].result = "ok"
              /\ task'[p].access_token.token_type = ACCESS_TOKEN_TYPE
              /\ task'[p].refresh_token.token_type = REFRESH_TOKEN_TYPE
              /\ task'[p].access_token.sub = Normalize(raw)
              /\ task'[p].refresh_token.sub = Normalize(raw)
              /\ users'[Normalize(raw)].refresh_token = task'[p].refresh_token
              /\ r_get(redis', _rt_key(task'[p].refresh_token))
                    = Normalize(raw))
      ]_vars

C6_Witness ==
    \E p \in DOMAIN task :
        /\ task[p].op = "login" /\ task[p].result = "ok"
        /\ RowHolds(task[p].refresh_token)
        /\ is_refresh_token_active(redis, task[p].refresh_token)

\* C7: a refresh_access_token call succeeds only with a token that (a) has a
\* session-store entry or is some User row's refresh token, (b) is signed,
\* unexpired and of type refresh, (c) names the resolved user.
C7_RefreshOnlyWithValidRefreshToken ==
    [][\A p \in DOMAIN task, t \in Presentable :
          (RefreshStep(p, t) /\ task'[p].result = "ok")
          => (/\ is_refresh_token_active(redis, t) \/ RowHolds(t)
              /\ t.sig
              /\ t.exp >= now
              /\ t.token_type = REFRESH_TOKEN_TYPE
              /\ t.sub \in DOMAIN users
              /\ t.sub = task'[p].email
              /\ task'[p].access_token.sub = t.sub)
      ]_vars

C7_Witness ==
    \E p \in DOMAIN task :
        /\ RefreshFrame(p) /\ task[p].result = "ok"
        /\ task[p].token.token_type = REFRESH_TOKEN_TYPE

\* The second of two refresh calls in a row with one token, the token still
\* unexpired and still known to the session store or a User row.
SecondRefresh(p, t) ==
    /\ RefreshFrame(p) /\ task[p].result = "ok" /\ task[p].token = t
    /\ jwt_decode_ok(t)
    /\ is_refresh_token_active(redis, t) \/ RowHolds(t)
    /\ RefreshStep(p, t)

ValidAccessToken(a, sub) ==
    /\ a.token_type = ACCESS_TOKEN_TYPE /\ a.sub = sub
    /\ a.sig /\ a.exp = a.iat + JWT_EXPIRATION_SECONDS

\* C8 as stated: the second call succeeds, returns the same refresh token
\* and an access token different from the first call's.
C8_SecondRefreshNewAccessToken ==
    [][\A p \in DOMAIN task, t \in Presentable :
          SecondRefresh(p, t)
          => (/\ task'[p].result = "ok"
              /\ task'[p].refresh_token = t
              /\ ValidAccessToken(task'[p].access_token, t.sub)
              /\ task'[p].access_token # task[p].access_token)
      ]_vars

\* C8 amended: the second call succeeds and returns the same refresh token
\* and a valid access token, which differs from the first call's exactly
\* when the two calls fall in different clock seconds.
C8_SecondRefreshSameSecondSameToken ==
    [][\A p \in DOMAIN task, t \in Presentable :
          SecondRefresh(p, t)
          => (/\ task'[p].result = "ok"
              /\ task'[p].refresh_token = t
              /\ ValidAccessToken(task'[p].access_token, t.sub)
              /\ jwt_decode_ok(task'[p].access_token)
              /\ ValidAccessToken(task[p].access_token, t.sub)
              /\ (task'[p].access_token # task[p].access_token)
                    <=> (now # task[p].access_token.iat))
      ]_vars

C8_Witness ==
    \E p \in DOMAIN task :
        /\ RefreshFrame(p) /\ task[p].result = "ok" /\ task[p].repeat
        /\ \E a \in issued :
              /\ a.token_type = ACCESS_TOKEN_TYPE
              /\ a.sub = task[p].token.sub
              /\ a.iat < task[p].access_token.iat
              /\ a.iat >= task[p].token.iat

\* C9: a refresh_access_token call that fails leaves the session store and
\* every User row as they were.
C9_FailedRefreshChangesNothing ==
    [][\A p \in DOMAIN task, t \in Presentable :
          (RefreshStep(p, t) /\ task'[p].result # "ok")
          => (users' = users /\ redis' = redis /\ issued' = issued)
      ]_vars

C9_Witness ==
    \E p \in DOMAIN task :
        /\ RefreshFrame(p) /\ task[p].result = "InvalidToken"
        /\ \E e \in DOMAIN users :
              /\ users[e].refresh_token # NoToken
              /\ ~jwt_decode_ok(users[e].refresh_token)

\* C10 as stated: a reset_password call that fails has written nothing.
C10_FailedResetChangesNothing ==
    \A p \in DOMAIN task :
        (ResetFrame(p) /\ task[p].result \in {"InvalidToken", "UserNotFound"})
        => task[p].wrote = {}

\* C10 amended: a reset_password call that fails has changed no User row;
\* it has changed nothing in the session store either, except that the
\* user-not-found failure has deleted the token's password-reset entry.
C10_FailedResetDeletesAtMostItsEntry ==
    \A p \in DOMAIN task :
        /\ (ResetFrame(p) /\ task[p].result = "InvalidToken")
              => task[p].wrote = {}
        /\ (ResetFrame(p) /\ task[p].result = "UserNotFound")
              => task[p].wrote \subseteq {"pr_entry"}

C10_Witness ==
    \E p \in DOMAIN task :
        /\ ResetFrame(p) /\ task[p].result = "UserNotFound"
        /\ task[p].wrote = {"pr_entry"}

\* C11: logout(email) empties the row's refresh token and changes nothing
\* else: the session store, the other fields of the row and the other rows
\* are as before.
C11_LogoutClearsOnlyRowToken ==
    [][\A p \in DOMAIN task, e \in DOMAIN users :
          (task'[p].op = "logout" /\ logout(p, e))
          => (/\ DOMAIN users' = DOMAIN users
              /\ users'[e] = [users[e] EXCEPT !.refresh_token = NoToken]
              /\ \A o \in DOMAIN users \ {e} : users'[o] = users[o]
              /\ redis' = redis
              /\ issued' = issued)
      ]_vars

C11_Witness ==
    \E p \in DOMAIN task :
        /\ task[p].op = "logout"
        /\ task[p].email \in DOMAIN users
        /\ users[task[p].email].confirmed
        /\ users[task[p].email].refresh_token = NoToken
        /\ \E t \in issued :
              /\ t.sub = task[p].email
              /\ is_refresh_token_active(redis, t)

\* Two spellings of one address: equal once blanks are dropped and letters
\* are lowercased.
NotBlank(c) == c # " "

Fold(s) ==
    [i \in 1..Len(SelectSeq(s, NotBlank)) |->
        lower_char(SelectSeq(s, NotBlank)[i])]

SameAddress(x, y) == Fold(x) = Fold(y)

\* C12: registering an address that is already registered, however it is
\* spelled, fails with UserAlreadyExists and leaves the rows as they were;
\* no two rows ever hold the same address.
C12_DuplicateRegistrationRefused ==
    [][\A p \in DOMAIN task, raw \in RawEmails, pw \in Passwords,
          salt \in Salts :
          (task'[p].op = "signup" /\ signup(p, raw, pw, salt))
          => (/\ (\E e \in DOMAIN users : SameAddress(e, raw))
                    => (task'[p].result = "UserAlreadyExists"
                        /\ users' = users)
              /\ \A e1, e2 \in DOMAIN users' :
                    SameAddress(e1, e2) => e1 = e2)
      ]_vars

C12_Witness ==
    \E p \in DOMAIN task :
        /\ task[p].op = "signup" /\ task[p].result = "UserAlreadyExists"
        /\ \E e \in DOMAIN users : SameAddress(e, task[p].email)

\* C13: request_password_reset never changes a User row; for an unknown
\* address it changes nothing and sends nothing; for a known one it mints a
\* password_reset token for that address, stores pr:<token> -> address for
\* 15 minutes, leaves the other entries alone, and sends the mail.
C13_RequestPasswordReset ==
    [][\A p \in DOMAIN task, raw \in RawEmails :
          (task'[p].op = "request_password_reset"
           /\ request_password_reset(p, raw))
          => (/\ users' = users
              /\ IF \E e \in DOMAIN users : SameAddress(e, raw)
                 THEN LET t == task'[p].token
                          e == CHOOSE e \in DOMAIN users : SameAddress(e, raw)
                      IN  /\ task'[p].result = "sent"
                          /\ t.sig /\ t.sub = e
                          /\ t.token_type = RESET_TOKEN_TYPE
                          /\ t.iat = now
                          /\ t.exp = now + RESET_TOKEN_EXPIRATION_SECONDS
                          /\ DOMAIN redis' = DOMAIN redis \cup {pr_key(t)}
                          /\ redis'[pr_key(t)] =
                                [value |-> e, expire_at |-> now + 900]
                          /\ \A k \in DOMAIN redis \ {pr_key(t)} :
                                redis'[k] = redis[k]
                 ELSE /\ task'[p].result = "noop"
                      /\ redis' = redis /\ issued' = issued)
      ]_vars

C13_Witness ==
    \E p \in DOMAIN task :
        /\ task[p].op = "request_password_reset" /\ task[p].result = "sent"
        /\ r_get(redis, pr_key(task[p].token)) = task[p].email

\* A step that is the call get_current_user(t) of task p.
CurrentUserStep(p, t) ==
    task'[p].op = "get_current_user" /\ get_current_user(p, t)

\* C14: get_current_user resolves a caller exactly from a signed, unexpired
\* token of type access whose subject is an existing user's email, and the
\* caller it resolves is that user; every other token is rejected.
C14_CurrentUserOnlyFromAccessToken ==
    [][\A p \in DOMAIN task, t \in Presentable :
          CurrentUserStep(p, t)
          => (/\ task'[p].result \in {"ok", "Unauthorized"}
              /\ task'[p].result = "ok"
                    <=> (/\ t.sig /\ t.exp >= now
                         /\ t.token_type = ACCESS_TOKEN_TYPE
                         /\ t.sub \in DOMAIN users)
              /\ task'[p].result = "ok" => task'[p].email = t.sub
              /\ users' = users /\ redis' = redis)
      ]_vars

C14_Witness ==
    \E p \in DOMAIN task :
        /\ task[p].op = "get_current_user" /\ task[p].result = "ok"
        /\ task[p].token.token_type = ACCESS_TOKEN_TYPE

\* C15: a token whose expiry time has passed is rejected by
\* refresh_access_token, by reset_password and by get_current_user, whatever
\* the session store and the User rows still hold.
C15_ExpiredTokensRejected ==
    [][\A p \in DOMAIN task, t \in Presentable :
          t.exp < now
          => (/\ RefreshStep(p, t) => task'[p].result = "InvalidToken"
              /\ CurrentUserStep(p, t) => task'[p].result = "Unauthorized"
              /\ \A pw \in Passwords :
                    (task'[p].op = "reset_password" /\ reset_get(p, t, pw))
                    => (task'[p].result = "InvalidToken"
                        /\ task'[p].pc = "done"))
      ]_vars

C15_Witness ==
    \E p \in DOMAIN task :
        /\ RefreshFrame(p) /\ task[p].result = "InvalidToken"
        /\ \E t \in issued :
              /\ t.token_type = REFRESH_TOKEN_TYPE /\ t.exp < now
              /\ is_refresh_token_active(redis, t) /\ RowHolds(t)

\* Two filters that differ at most in leading or trailing blanks and in
\* letter case, an absent filter counting as the empty string.
SameFilter(x, y) ==
    lower(strip(IF x.some THEN x.s ELSE <<>>))
        = lower(strip(IF y.some THEN y.s ELSE <<>>))

\* C16: for one owner, make_search_key gives the same key to two calls with
\* the same skip and limit whose filters differ only in outer blanks or
\* case, and different keys to two calls that differ in skip or in limit.
C16_SearchKeyNormalised ==
    [][\A u \in Owners, fn \in FirstNames, ln \in LastNames, em \in Emails,
          skip \in Skips, limit \in Limits :
          (/\ call.op = "make_search_key"
           /\ call'.op = "make_search_key"
           /\ u = call.user_id
           /\ compute_search_key(u, fn, ln, em, skip, limit))
          => (/\ (/\ skip = call.skip /\ limit = call.limit
                  /\ SameFilter(fn, call.first_name)
                  /\ SameFilter(ln, call.last_name)
                  /\ SameFilter(em, call.email))
                    => call'.key = call.key
              /\ (skip # call.skip \/ limit # call.limit)
                    => call'.key # call.key)
      ]_vars

C16_Witness ==
    /\ call.op = "make_search_key"
    /\ call.first_name = Some(<<" ", "A">>)
    /\ call.last_name = Some(<<" ">>)
    /\ call.key = make_search_key(call.user_id, Some(<<"a">>), None,
                                  call.email, call.skip, call.limit)

Query(frame) == frame.op \in {"search_contacts", "upcoming_birthdays"}

\* C17: a cached query never answers a user with a value the repository
\* made for another user, and no entry of a user's key holds one.
C17_NoCrossTenantValue ==
    /\ (Query(call) /\ call.result = "ok") => call.by = call.user_id
    /\ \A k \in DOMAIN cache : json_loads(cache[k].value).by = k[2]

C17_Witness ==
    /\ call.op = "search_contacts" /\ call.hit
    /\ \E k \in DOMAIN cache :
          /\ k[1] = call.key[1] /\ k[2] # call.key[2] /\ k[3] = call.key[3]
          /\ json_loads(cache[k].value).items # call.items

\* The read-through step of a cached query with key k and TTL ttl, whose
\* repository answer would be rows.
ReadThrough(k, rows, u, ttl) ==
    IF r_exists(cache, k)
    THEN /\ call'.hit /\ call'.repo_calls = 0
         /\ call'.items = cache[k].value[1].items
         /\ cache' = cache
    ELSE /\ ~call'.hit /\ call'.repo_calls = 1
         /\ call'.items = rows
         /\ DOMAIN cache' = DOMAIN cache \cup {k}
         /\ cache'[k] = [value |-> <<Result(rows, u)>>,
                         expire_at |-> now + ttl]
         /\ \A o \in DOMAIN cache : cache'[o] = cache[o]

SearchStep(fn, skip, u) ==
    call'.op = "search_contacts"
    /\ search_contacts(fn, None, None, skip, MaxCachedContacts, u)

BirthdaysStep(u) ==
    call'.op = "upcoming_birthdays" /\ upcoming_birthdays(DefaultDays, u)

\* C18: with a live entry under the key (an empty list included) the cached
\* value is returned and the repository is not asked; with none, the
\* repository is asked once, its answer is stored under the key for 60 s
\* (search) or 600 s (birthdays), and returned.
C18_ReadThrough ==
    [][/\ \A fn \in SearchedNames, skip \in Skips, u \in Owners :
             SearchStep(fn, skip, u)
             => (/\ call'.result = "ok"
                 /\ ReadThrough(call'.key,
                       repo_search_contacts(contacts, fn, None, None,
                                            skip, MaxCachedContacts, u), u, 60))
       /\ \A u \in Owners :
             BirthdaysStep(u)
             => (/\ call'.result = "ok"
                 /\ ReadThrough(call'.key,
                       repo_upcoming_birthdays(contacts, DefaultDays, u,
                                               today), u, 600))
      ]_vars

C18_Witness ==
    /\ call.op = "search_contacts" /\ call.result = "ok"
    /\ call.hit /\ call.items = <<>>
    /\ where_user_id(contacts, call.user_id) # <<>>

\* C19: a cached query never fails because of the store: it answers, and
\* from the repository when the store does not.
C19_StoreFailureIsAMiss ==
    Query(call) => call.result = "ok"

\* C20: the contact mutations leave the cache alone, a hit leaves the entry
\* as it is, and a value returned by search_contacts was made by the
\* repository at most 60 s before, one returned by upcoming_birthdays at most
\* 600 s before.
C20_StalenessBoundedByTTL ==
    [][/\ (\/ \E body \in ContactRows, u \in Owners : create_contact(body, u)
           \/ \E id \in 1..MaxCachedContacts, body \in ContactRows, u \in Owners :
                 update_contact(id, body, u)
           \/ \E id \in 1..MaxCachedContacts, u \in Owners : remove_contact(id, u))
          => cache' = cache
       /\ \A fn \in SearchedNames, skip \in Skips, u \in Owners :
             SearchStep(fn, skip, u)
             => (/\ now - call'.at <= SEARCH_TTL
                 /\ call'.hit => cache' = cache
                 /\ ~call'.hit => call'.at = now)
       /\ \A u \in Owners :
             BirthdaysStep(u)
             => (/\ now - call'.at <= BIRTHDAYS_TTL
                 /\ call'.hit => cache' = cache
                 /\ ~call'.hit => call'.at = now)
      ]_vars

C20_Witness ==
    /\ Query(call) /\ call.hit
    /\ call.items # <<>>
    /\ where_user_id(contacts, call.user_id) = <<>>
    /\ call.at < now

Range(seq) == {seq[i] : i \in DOMAIN seq}

BirthdaysFrame ==
    call.op = "repository.upcoming_birthdays" /\ call.result = "ok"

\* The rows of the caller that have a birthday.
CallerBirthdays ==
    {c \in Range(where_user_id(contacts, call.user_id)) :
        c.birthday # NoDate}

\* C21: upcoming_birthdays(days, user) returns exactly the user's contacts
\* with a birthday whose MMDD key lies in the inclusive window from today's
\* key to the key of today + days: between the two when start <= end, at or
\* after the start or at or before the end when the window wraps over
\* New Year; the birth year plays no part and a NULL birthday is never
\* returned.
C21_BirthdayKeyWindow ==
    BirthdaysFrame =>
        LET start == today.m * 100 + today.d
            last == plus_days(today, call.days)
            end == last.m * 100 + last.d
            Key(c) == c.birthday.m * 100 + c.birthday.d
            Returned(m, d) ==
                \E c \in Range(call.items) :
                    c.birthday.m = m /\ c.birthday.d = d
        IN  /\ Range(call.items) =
                  {c \in CallerBirthdays :
                      IF start <= end
                      THEN start <= Key(c) /\ Key(c) <= end
                      ELSE Key(c) >= start \/ Key(c) <= end}
            /\ (today.m = 12 /\ today.d = 28 /\ call.days = 7)
                  => /\ Returned(1, 2) <=>
                          (\E c \in CallerBirthdays :
                              c.birthday.m = 1 /\ c.birthday.d = 2)
                     /\ ~Returned(12, 20)
            /\ (today.m = 6 /\ today.d = 1 /\ call.days = 7)
                  => /\ Returned(6, 5) <=>
                          (\E c \in CallerBirthdays :
                              c.birthday.m = 6 /\ c.birthday.d = 5)
                     /\ ~Returned(6, 9)

\* A window over New Year that returned a January birthday and left out a
\* row without one.
C21_Witness ==
    /\ BirthdaysFrame
    /\ today.m = 12 /\ call.days = 7
    /\ \E c \in Range(call.items) : c.birthday = Date(1990, 1, 2)
    /\ \E c \in Range(where_user_id(contacts, call.user_id)) :
          c.birthday = NoDate

\* The birthday falls on one of the days today, today + 1, ..
\* today + days - 1.
OccursWithin(birthday, day, days) ==
    \E n \in 0..(days - 1) :
        LET on == plus_days(day, n)
        IN  on.m = birthday.m /\ on.d = birthday.d

\* C22: for every today and every days in 1..365, upcoming_birthdays returns
\* every contact of the user whose birthday next occurs within the next
\* `days` days counted from today, over New Year and for days = 365 too.
C22_NextOccurrenceWithinDays ==
    BirthdaysFrame =>
        \A c \in CallerBirthdays :
            OccursWithin(c.birthday, today, call.days)
            => c \in Range(call.items)

RemoveStep(id, u) ==
    call'.op = "remove_contact" /\ remove_contact(id, u)

\* C23: the remove_contact endpoint answers 404 when the caller owns no
\* contact with that id (it never existed, it was deleted before, or it is
\* another user's), and 204 only when a contact was removed.
C23_RemoveNotFoundIs404 ==
    [][\A id \in ContactIds, u \in Owners :
          RemoveStep(id, u)
          => /\ get_contact_by_id(contacts, id, u) = NoContact
                   => call'.result = "404"
             /\ call'.result = "204" => contacts' # contacts
      ]_vars

ContactOps ==
    {"read_contacts", "read_contact", "create_contact", "update_contact",
     "remove_contact", "search_contacts"}

Owns(tbl, id, u) == id \in DOMAIN tbl /\ tbl[id].user_id = u

\* C24: contacts are owner-scoped for get, list, search, update and delete:
\* a request of user A is never answered with a contact of user B and never
\* changes or deletes one; a created contact belongs to the caller; and a
\* get or update of an id the caller does not own answers nothing and
\* changes nothing.
C24_OwnerScoped ==
    [][call'.op \in ContactOps
       => /\ \A c \in Range(call'.items) : c.user_id = call'.user_id
          /\ \A id \in DOMAIN contacts :
                contacts[id].user_id # call'.user_id
                => id \in DOMAIN contacts' /\ contacts'[id] = contacts[id]
          /\ \A id \in DOMAIN contacts' :
                /\ id \notin DOMAIN contacts
                      => contacts'[id].user_id = call'.user_id
                /\ id \in DOMAIN contacts
                      => contacts'[id].user_id = contacts[id].user_id
          /\ (/\ call'.op \in {"read_contact", "update_contact"}
              /\ ~Owns(contacts, call'.contact_id, call'.user_id))
                => /\ call'.result = "404" /\ call'.items = <<>>
                   /\ contacts' = contacts
      ]_vars

\* An update of another user's contact, answered 404, while the caller has
\* a contact of their own.
C24_Witness ==
    /\ call.op = "update_contact" /\ call.result = "404"
    /\ call.contact_id \in DOMAIN contacts
    /\ contacts[call.contact_id].user_id # call.user_id
    /\ \E id \in DOMAIN contacts : contacts[id].user_id = call.user_id

\* C25: a refresh token without a session-store entry that is the refresh
\* token of a User row and is signed, unexpired, of type refresh and names
\* that row refreshes successfully; the call registers the token in the
\* session store again under the user's email and leaves the User row as it
\* is, and a refresh that finds the entry is served from the store and
\* writes nothing.
C25_FallbackRegistersAgain ==
    [][\A p \in DOMAIN task, t \in Presentable :
          RefreshStep(p, t)
          => /\ (/\ <<"rt", t>> \notin DOMAIN redis
                 /\ \E e \in DOMAIN users :
                       users[e].refresh_token = t /\ t.sub = e
                 /\ t.sig /\ t.exp >= now
                 /\ t.token_type = REFRESH_TOKEN_TYPE)
                => /\ task'[p].result = "ok"
                   /\ task'[p].refresh_token = t
                   /\ <<"rt", t>> \in DOMAIN redis'
                   /\ redis'[<<"rt", t>>] =
                         [value |-> t.sub,
                          expire_at |-> now + JWT_REFRESH_EXPIRATION_SECONDS]
                   /\ \A k \in DOMAIN redis : redis'[k] = redis[k]
                   /\ users' = users
             /\ <<"rt", t>> \in DOMAIN redis
                => redis' = redis /\ users' = users
      ]_vars

\* A refresh that succeeded on the fallback path: the entry it wrote
\* outlives the token.
C25_Witness ==
    \E p \in DOMAIN task :
        /\ RefreshFrame(p) /\ task[p].result = "ok"
        /\ RowHolds(task[p].token)
        /\ <<"rt", task[p].token>> \in DOMAIN redis
        /\ redis[<<"rt", task[p].token>>].expire_at > task[p].token.exp

\* What a single refresh call succeeds with in the current state.
RefreshableNow(t) ==
    /\ t.sig /\ t.exp >= now
    /\ t.sub \in DOMAIN users
    /\ \/ <<"rt", t>> \in DOMAIN redis
       \/ users[t.sub].refresh_token = t /\ t.token_type = REFRESH_TOKEN_TYPE

RefreshDone(p, t) ==
    task[p].op = "refresh" /\ task[p].pc = "done" /\ task[p].token = t

\* C26: two refresh_access_token calls running at once with one valid
\* token both succeed and both return that token, whatever the order of
\* their awaits, and they leave the session store and the User rows as one
\* call alone would: no step touches a User row, and the only write any
\* step makes is the one a single call makes, the entry of the token under
\* its user's email when the store has none and the row holds the token.
C26_ConcurrentRefresh ==
    [][/\ \A p \in DOMAIN task :
             (task'[p].op = "refresh" /\ task'[p] # task[p])
             => /\ users' = users
                /\ redis' # redis
                   => LET t == task[p].token
                      IN  /\ <<"rt", t>> \notin DOMAIN redis
                          /\ users[t.sub].refresh_token = t
                          /\ redis' =
                                save_refresh_token(redis, t, t.sub)
       /\ \A p \in DOMAIN task, q \in DOMAIN task, t \in Presentable :
             (RefreshDone(p, t)' /\ RefreshDone(q, t)' /\ RefreshableNow(t)')
             => /\ task'[p].result = "ok" /\ task'[q].result = "ok"
                /\ task'[p].refresh_token = t /\ task'[q].refresh_token = t
                /\ redis'[<<"rt", t>>].value = t.sub
      ]_vars

\* Both calls are on the fallback path with one token: one has written the
\* entry, the other is about to write it again.
C26_Witness ==
    \E p \in DOMAIN task, q \in DOMAIN task :
        /\ p # q
        /\ task[p].op = "refresh" /\ task[q].op = "refresh"
        /\ task[p].token = task[q].token
        /\ task[p].pc = "mint" /\ task[q].pc = "save"
        /\ <<"rt", task[p].token>> \in DOMAIN redis

\* C27: every rt entry of the session store is keyed by a refresh token
\* that login_by_email minted, and its value is the email the token names;
\* no access, confirmation or reset token is ever under an rt key.
C27_RefreshEntriesAreRefreshTokens ==
    \A k \in DOMAIN redis :
        k[1] = "rt"
        => /\ k[2] \in issued
           /\ k[2].sig
           /\ k[2].token_type = REFRESH_TOKEN_TYPE
           /\ k[2].exp = k[2].iat + JWT_REFRESH_EXPIRATION_SECONDS
           /\ redis[k].value = k[2].sub

\* The store holds an rt entry written by the fallback path of refresh,
\* after access tokens were handed out for the same user.
C27_Witness ==
    \E k \in DOMAIN redis :
        /\ k[1] = "rt" /\ redis[k].expire_at > k[2].exp
        /\ \E a \in issued :
              a.token_type = ACCESS_TOKEN_TYPE /\ a.sub = k[2].sub

\* A refresh token of a login whose user has logged out since: the row of
\* the user it names holds no refresh token.
LoggedOut(t) ==
    /\ t \in issued /\ t.token_type = REFRESH_TOKEN_TYPE
    /\ t.sub \in DOMAIN users
    /\ users[t.sub].refresh_token = NoToken

\* C28 as stated: after login and logout, a refresh with the login's token
\* succeeds for as long as the token's session-store entry is live, and
\* fails only once the entry has expired or is absent.
C28_RefreshAfterLogoutWhileEntryLive ==
    [][\A p \in DOMAIN task, t \in Presentable :
          (RefreshStep(p, t) /\ LoggedOut(t))
          => /\ <<"rt", t>> \in DOMAIN redis => task'[p].result = "ok"
             /\ task'[p].result # "ok" => <<"rt", t>> \notin DOMAIN redis
      ]_vars

\* C28 amended: after login and logout, a refresh with the login's token
\* succeeds exactly while the token's session-store entry is live and the
\* token itself has not expired; without an entry it fails, the cleared row
\* being no fallback.
C28_RefreshAfterLogoutWhileEntryAndTokenLive ==
    [][\A p \in DOMAIN task, t \in Presentable :
          (RefreshStep(p, t) /\ LoggedOut(t))
          => (task'[p].result = "ok"
                <=> (<<"rt", t>> \in DOMAIN redis /\ t.exp >= now))
      ]_vars

\* A refresh that succeeded for a user whose row holds no refresh token.
C28_Witness ==
    \E p \in DOMAIN task :
        /\ RefreshFrame(p) /\ task[p].result = "ok"
        /\ LoggedOut(task[p].token)

\* C29: a later login does not end an earlier session.  After a second
\* successful login the User row holds the new refresh token only, the
\* entries of earlier refresh tokens are still in the session store next to
\* the new one, and a refresh succeeds with any refresh token of the user
\* whose entry is live and which has not expired, whether or not the row
\* holds it.
C29_LaterLoginKeepsEarlierSession ==
    [][/\ \A p \in DOMAIN task, raw \in RawEmails, pw \in Passwords :
             (LoginStep(p, raw, pw) /\ task'[p].result = "ok")
             => LET t2 == task'[p].refresh_token
                IN  /\ users'[t2.sub].refresh_token = t2
                    /\ <<"rt", t2>> \in DOMAIN redis'
                    /\ \A k \in DOMAIN redis :
                          /\ k \in DOMAIN redis'
                          /\ k # <<"rt", t2>> => redis'[k] = redis[k]
       /\ \A p \in DOMAIN task, t \in Presentable :
             (/\ RefreshStep(p, t)
              /\ t.token_type = REFRESH_TOKEN_TYPE
              /\ <<"rt", t>> \in DOMAIN redis
              /\ t.exp >= now)
             => /\ task'[p].result = "ok"
                /\ task'[p].refresh_token = t
                /\ users' = users
      ]_vars

\* A refresh that succeeded with the token of the first login while the row
\* holds the token of the second and both entries are live.
C29_Witness ==
    \E p \in DOMAIN task :
        /\ RefreshFrame(p) /\ task[p].result = "ok"
        /\ LET t1 == task[p].token
               t2 == users[t1.sub].refresh_token
           IN  /\ t2 # NoToken /\ t2 # t1 /\ t2.iat > t1.iat
               /\ <<"rt", t1>> \in DOMAIN redis
               /\ <<"rt", t2>> \in DOMAIN redis

\* Caller p asked for a reset and was sent r; caller w reset the password
\* with r.
Sent(p, r) ==
    /\ task[p].op = "request_password_reset" /\ task[p].result = "sent"
    /\ task[p].token = r

ResetOk(w, r) ==
    /\ task[w].op = "reset_password" /\ task[w].pc = "done"
    /\ task[w].result = "ok" /\ task[w].token = r

\* r is still accepted by reset_password.
Usable(r) ==
    /\ <<"pr", r>> \in DOMAIN redis
    /\ redis[<<"pr", r>>].value = r.sub
    /\ r.sig /\ r.exp >= now /\ r.token_type = RESET_TOKEN_TYPE
    /\ r.sub \in DOMAIN users

\* r1 and r2 were sent by two calls, one reset was made with r1 and none
\* other with r2, and neither r2 nor the TTL of its entry has run out.
SecondTokenOutstanding(p, q, w, r1, r2) ==
    /\ p # q
    /\ Sent(p, r1) /\ Sent(q, r2) /\ ResetOk(w, r1)
    /\ \A x \in DOMAIN task \ {w} : ~ResetOk(x, r2)
    /\ r2.exp >= now /\ now < r2.iat + RESET_ENTRY_TTL

\* C30 as stated: after two request_password_reset calls for one user that
\* produced r1 and r2, a successful reset with r1 leaves r2 usable until its
\* own entry or the token expires.
C30_ResetTokensIndependent ==
    \A p \in DOMAIN task, q \in DOMAIN task, w \in DOMAIN task :
        \A r1 \in issued, r2 \in issued :
            SecondTokenOutstanding(p, q, w, r1, r2) => Usable(r2)

\* C30 amended: the last step of a successful reset deletes the entry of its
\* own token and no other; and when the two requests fell in different
\* clock seconds, so that r1 and r2 differ, r2 stays usable after the reset
\* with r1 until its own entry or the token expires.  (Two requests in one
\* second produce one token with one entry.)
C30_ResetTokensOfDifferentSecondsIndependent ==
    [][/\ \A w \in DOMAIN task :
             (task[w].pc = "delete" /\ task'[w].pc = "done")
             => /\ DOMAIN redis' = DOMAIN redis \ {<<"pr", task[w].token>>}
                /\ \A k \in DOMAIN redis' : redis'[k] = redis[k]
       /\ \A p \in DOMAIN task, q \in DOMAIN task, w \in DOMAIN task :
             \A r1 \in issued', r2 \in issued' :
                (SecondTokenOutstanding(p, q, w, r1, r2)'
                 /\ r1.iat # r2.iat)
                => Usable(r2)'
       /\ \A p \in DOMAIN task, q \in DOMAIN task :
             \A r1 \in issued', r2 \in issued' :
                (Sent(p, r1)' /\ Sent(q, r2)' /\ r1.iat = r2.iat)
                => r1 = r2
      ]_vars

\* Two requests a second apart, a reset with the first token and a further
\* reset with the second.
C30_Witness ==
    \E p \in DOMAIN task, q \in DOMAIN task, w \in DOMAIN task,
       x \in DOMAIN task :
        /\ Sent(p, task[p].token) /\ Sent(q, task[q].token)
        /\ task[p].token # task[q].token
        /\ ResetOk(w, task[p].token) /\ ResetOk(x, task[q].token)
====
